---------------------------- MODULE Spec2Model ----------------------------
(***************************************************************************)
(* A model of the solid-rocket design tool: the thrust bisection of        *)
(* main.py, the nozzle solver and atmosphere model of rocket_utils.py, the *)
(* internal-ballistics time march and grain-sizing bisection of            *)
(* grain_design.py, and the call sequences of main.py and guiapp.py.       *)
(*                                                                         *)
(* Floating-point quantities are carried as integers in fixed units:       *)
(*   thrust bracket   ticks of 290/2^23 N above 10 N (so the bracket       *)
(*                    [10 N, 300 N] is [0, 2^23] and every midpoint the    *)
(*                    code can reach is an integer),                       *)
(*   altitude         0.1 mm,                                              *)
(*   length           0.1 um, area 1e-9 m^2, pressure Pa, time steps of    *)
(*                    dt = 5 ms, burn rate um/s, thrust mN, impulse mN s.  *)
(***************************************************************************)
EXTENDS Integers, Sequences, FiniteSets

VARIABLES
    entry,        \* the function the caller invoked
    pc,           \* position in the running code
    fault,        \* "none", or the exception that ended the run
    cfg,          \* the flight configuration seen by simulate_flight
    h_target,     \* main.py: target apogee
    F_min, F_max, \* main.py: thrust bracket
    iter_count,   \* main.py: iterations of the thrust loop
    F_test,       \* main.py: thrust simulated last
    h_max,        \* main.py: apogee simulated last
    F_req,        \* main.py: thrust reported
    results,      \* what optimize_rocket_design returned ("none" before)
    h,            \* rocket_utils.py: altitude given to isa_atmosphere
    atm,          \* rocket_utils.py: what isa_atmosphere returned
    nin,          \* rocket_utils.py: arguments of calculate_nozzle_dimensions
    Ma_sol,       \* rocket_utils.py: what fsolve produced
    nozzle_res,   \* rocket_utils.py: what calculate_nozzle_dimensions returned
    gin,          \* grain_design.py: arguments of calculate_grain_geometry
    D_grain,      \* grain_design.py:104
    min_core, max_core,   \* grain_design.py: core-diameter bracket
    i,            \* grain_design.py: passes of the sizing loop begun
    test_core, test_L,    \* grain_design.py: geometry under test
    best_core, best_L,    \* grain_design.py: geometry kept
    sim_res,      \* grain_design.py: ballistics summary kept
    grain_res,    \* grain_design.py: what calculate_grain_geometry returned
    sim           \* grain_design.py: locals of run_internal_ballistics

designVars == << cfg, h_target, F_min, F_max, iter_count, F_test, h_max,
                 F_req, results >>
atmVars == << h, atm >>
nozzleVars == << nin, Ma_sol, nozzle_res >>

grainVars == << gin, D_grain, min_core, max_core, i, test_core, test_L,
                best_core, best_L, sim_res, grain_res >>

vars == << entry, pc, fault, designVars, atmVars, nozzleVars, grainVars, sim >>

--------------------------------------------------------------------------
(* Arithmetic helpers *)

Abs(x) == IF x < 0 THEN -x ELSE x

\* floor(x * a / b) without forming x * a
MulDiv(x, a, b) == (x \div b) * a + ((x % b) * a) \div b

RECURSIVE SqrtSearch(_, _, _)
SqrtSearch(n, lo, hi) ==
    IF hi - lo <= 1 THEN lo
    ELSE LET mid == (lo + hi) \div 2 IN
         IF mid <= n \div mid THEN SqrtSearch(n, mid, hi)
                              ELSE SqrtSearch(n, lo, mid)

\* floor of the square root of n >= 0
ISqrt(n) == IF n <= 0 THEN 0 ELSE SqrtSearch(n, 1, 46341)

\* Piecewise-linear reading of a table << <<x1, y1>>, ..., <<xn, yn>> >> of
\* exact values (x ascending), held at its ends.
Interp(t, x) ==
    IF x <= t[1][1] THEN t[1][2]
    ELSE IF x >= t[Len(t)][1] THEN t[Len(t)][2]
    ELSE LET j == CHOOSE q \in 1..(Len(t) - 1) : t[q][1] <= x /\ x < t[q + 1][1]
             frac == MulDiv(x - t[j][1], 1024, t[j + 1][1] - t[j][1])
         IN  t[j][2] + MulDiv(t[j + 1][2] - t[j][2], frac, 1024)

\* sea-level ambient pressure in Pa: rocket_utils.py:42, grain_design.py:6
Pa_SL == 101325

--------------------------------------------------------------------------
(* Python call binding: a call is accepted when its positional arguments   *)
(* fit the parameter list, every keyword names a parameter not already     *)
(* bound, and every parameter without a default is bound.                  *)

Sig_optimize_rocket_design ==
    [ params |-> << "h_target", "m0", "mp", "CD_A", "tb", "k", "epsilon",
                    "P0", "P_percentage", "verbose" >>,
      required |-> 9 ]

Sig_calculate_nozzle_dimensions ==
    [ params |-> << "F_req", "P0", "P_percentage", "epsilon", "k", "c_star",
                    "efficiency" >>,
      required |-> 6 ]

Accepts(sig, npos, kws) ==
    /\ npos <= Len(sig.params)
    /\ \A kw \in kws :
          \E j \in 1..Len(sig.params) : sig.params[j] = kw /\ j > npos
    /\ \A j \in 1..sig.required : j <= npos \/ sig.params[j] \in kws

\* main.py:88 and guiapp.py:80-83
CallOfOptimize(e) ==
    IF e = "main" THEN [ npos |-> 9, kws |-> {"verbose"} ]
                  ELSE [ npos |-> 10, kws |-> {"efficiency"} ]

\* main.py:59
CallOfNozzle == [ npos |-> 5, kws |-> {} ]

\* keys of the dict calculate_nozzle_dimensions returns, and the number of
\* names main.py:59 unpacks it into
NozzleKeys == { "At", "Dt", "Ae", "De", "CF", "CF_ideal", "Ma_exit", "Pc_avg" }
NozzleUnpackTargets == << "At", "dt", "Ae", "de", "CF" >>

--------------------------------------------------------------------------
(* Thrust optimizer, main.py:23-50 *)

F_min0 == 0            \* 10.0 N
F_max0 == 8388608      \* 300.0 N
BracketTol == 2        \* 1e-4 N is 2.89 ticks: width > 1e-4 N iff ticks > 2
tol == 100             \* 0.01 m
max_iter == 100

MaxSlope == 2          \* steepest trajectory response tried, 0.1 mm per tick
Liftoffs == { 0, 524288 }
Targets == { 2800000, 2950000, 4194304, 8388608, 300000000 }

Configs == [ slope : 1..MaxSlope, liftoff : Liftoffs ]

\* Apogee of the trajectory flown at thrust F: np.max(y[0]) of
\* simulate_flight. The integrator is a library; its response is taken as
\* zero up to the lift-off thrust and rising linearly above it.
Apogee(F, c) == IF F <= c.liftoff THEN 0 ELSE c.slope * (F - c.liftoff)

StrictlyIncreasing(c) == c.liftoff <= F_min0
Attainable(t, c) == Apogee(F_min0, c) <= t /\ t <= Apogee(F_max0, c)

LoopGuard == (F_max - F_min) > BracketTol /\ iter_count < max_iter

\* the midpoint written without its parentheses: lo + hi / 2
MidpointUnparenthesised(lo, hi) == lo + hi \div 2

Midpoint(lo, hi) == (lo + hi) \div 2

IdleDesign ==
    /\ cfg = [ slope |-> 1, liftoff |-> 0 ]
    /\ h_target = 0
    /\ F_min = F_min0 /\ F_max = F_max0
    /\ iter_count = 0
    /\ F_test = 0 /\ h_max = 0 /\ F_req = 0
    /\ results = "none"

IdleAtmosphere == h = 0 /\ atm = "none"

IdleNozzle ==
    /\ nin = "none"
    /\ Ma_sol = "none"
    /\ nozzle_res = "none"

IdleGrain ==
    /\ gin = "none"
    /\ D_grain = 0
    /\ min_core = 0 /\ max_core = 0
    /\ i = 0
    /\ test_core = 0 /\ test_L = 0
    /\ best_core = 0 /\ best_L = 0
    /\ sim_res = << 0, 0, 0, 0 >>
    /\ grain_res = "none"

\* no call of run_internal_ballistics made yet
IdleSim ==
    sim = [ d_core |-> 0, D_grain |-> 0, L_grain |-> 0, At |-> 0, rac |-> 0,
            nozzle_eff |-> 0, Pa |-> Pa_SL, time |-> 0, burn_depth |-> 0,
            total_impulse |-> 0, max_pressure |-> 0, Pc |-> 0,
            pressure_factor |-> 0, Cf_real |-> 0, returned |-> FALSE ]

InitDesign ==
    /\ entry \in { "main", "gui" }
    /\ pc = "start"
    /\ fault = "none"
    /\ IdleAtmosphere /\ IdleNozzle /\ IdleGrain /\ IdleSim
    /\ cfg \in Configs
    /\ h_target \in Targets
    /\ F_min = F_min0 /\ F_max = F_max0
    /\ iter_count = 0
    /\ F_test = 0 /\ h_max = 0 /\ F_req = 0
    /\ results = "none"

\* The caller's call of optimize_rocket_design, and main.py:23-29
CallOptimize ==
    /\ pc = "start"
    /\ entry \in { "main", "gui" }
    /\ LET c == CallOfOptimize(entry) IN
         IF Accepts(Sig_optimize_rocket_design, c.npos, c.kws)
         THEN /\ pc' = "thrust_loop"
              /\ fault' = fault
         ELSE /\ pc' = "fault"
              /\ fault' = "TypeError"
    /\ UNCHANGED << entry, designVars, atmVars, nozzleVars, grainVars, sim >>

\* One pass of the while loop, main.py:31-48
ThrustIterate ==
    /\ pc = "thrust_loop"
    /\ LoopGuard
    /\ iter_count' = iter_count + 1
    /\ F_test' = Midpoint(F_min, F_max)
    /\ h_max' = Apogee(F_test', cfg)
    /\ IF h_max' > h_target
         THEN F_max' = F_test' /\ F_min' = F_min
         ELSE F_min' = F_test' /\ F_max' = F_max
    /\ pc' = IF Abs(h_max' - h_target) < tol THEN "thrust_end" ELSE "thrust_loop"
    /\ UNCHANGED << entry, fault, cfg, h_target, F_req, results, atmVars,
                    nozzleVars, grainVars, sim >>

\* After the loop, main.py:50
ThrustEnd ==
    /\ \/ pc = "thrust_end"
       \/ pc = "thrust_loop" /\ ~LoopGuard
    /\ F_req' = Midpoint(F_min, F_max)
    /\ pc' = "nozzle_call"
    /\ UNCHANGED << entry, fault, cfg, h_target, F_min, F_max, iter_count,
                    F_test, h_max, results, atmVars, nozzleVars, grainVars, sim >>

\* main.py:59-70: the call of calculate_nozzle_dimensions, the unpacking of
\* its result and the return
OptimizeSizeNozzle ==
    /\ pc = "nozzle_call"
    /\ IF ~Accepts(Sig_calculate_nozzle_dimensions, CallOfNozzle.npos,
                   CallOfNozzle.kws)
         THEN pc' = "fault" /\ fault' = "TypeError" /\ results' = results
         ELSE IF Cardinality(NozzleKeys) # Len(NozzleUnpackTargets)
                THEN pc' = "fault" /\ fault' = "ValueError" /\ results' = results
                ELSE /\ pc' = "done" /\ fault' = fault
                     /\ results' = [ F_req |-> F_req, h_max |-> h_max ]
    /\ UNCHANGED << entry, cfg, h_target, F_min, F_max, iter_count, F_test,
                    h_max, F_req, atmVars, nozzleVars, grainVars, sim >>

NextDesign == CallOptimize \/ ThrustIterate \/ ThrustEnd \/ OptimizeSizeNozzle

SpecDesign == InitDesign /\ [][NextDesign]_vars

--------------------------------------------------------------------------
(* Atmosphere model, rocket_utils.py:4-17. Altitude in m, pressure in Pa,  *)
(* density in g/m^3, temperature in 1e-4 K.                                *)

\* 101325 * (T / 288.15)**5.2561 at 500 m spacing
TropoPressureTable ==
    << <<0, 101325>>, <<500, 95461>>, <<1000, 89874>>, <<1500, 84555>>,
       <<2000, 79494>>, <<2500, 74682>>, <<3000, 70107>>, <<3500, 65763>>,
       <<4000, 61639>>, <<4500, 57727>>, <<5000, 54018>>, <<5500, 50505>>,
       <<6000, 47179>>, <<6500, 44033>>, <<7000, 41059>>, <<7500, 38250>>,
       <<8000, 35598>>, <<8500, 33097>>, <<9000, 30741>>, <<9500, 28522>>,
       <<10000, 26435>>, <<10500, 24473>>, <<11000, 22631>> >>

\* Pa_11km / (287.05 * T_11km) * exp(-9.80665 * (h - 11000) / (287.05 * T_11km))
StratoDensityTable ==
    << <<11000, 364>>, <<12000, 311>>, <<13000, 265>>, <<14000, 227>>,
       <<15000, 194>>, <<16000, 165>>, <<17000, 141>>, <<18000, 121>>,
       <<19000, 103>>, <<20000, 88>>, <<21000, 75>>, <<22000, 64>>,
       <<23000, 55>>, <<24000, 47>>, <<25000, 40>>, <<26000, 34>>,
       <<27000, 29>>, <<28000, 25>>, <<29000, 21>>, <<30000, 18>> >>

\* The local names the branch taken binds, with their values
AtmosphereLocals(alt) ==
    IF 0 <= alt /\ alt < 11000
    THEN LET T == 2881500 - 65 * alt
             Pa == Interp(TropoPressureTable, alt)
             RT == (28705 * (T \div 100)) \div 10000
         IN  [ bound |-> { "T", "Pa", "rho" }, rho |-> (Pa * 1000) \div RT,
               Pa |-> Pa ]
    ELSE IF alt >= 11000
    THEN [ bound |-> { "T_11km", "Pa_11km", "rho" },
           rho |-> Interp(StratoDensityTable, alt), Pa |-> 0 ]
    ELSE [ bound |-> { "rho", "Pa" }, rho |-> 1225, Pa |-> 101325 ]

\* return rho, Pa: reading a local that no branch bound raises
isa_atmosphere(alt) ==
    LET loc == AtmosphereLocals(alt) IN
    IF { "rho", "Pa" } \subseteq loc.bound
    THEN [ kind |-> "ok", rho |-> loc.rho, Pa |-> loc.Pa ]
    ELSE [ kind |-> "UnboundLocalError", rho |-> 0, Pa |-> 0 ]

Altitudes == { a \in -2000..20000 : a % 250 = 0 }

InitAtmosphere ==
    /\ entry = "isa_atmosphere"
    /\ pc = "start"
    /\ fault = "none"
    /\ IdleDesign /\ IdleNozzle /\ IdleGrain /\ IdleSim
    /\ h \in Altitudes
    /\ atm = "none"

CallAtmosphere ==
    /\ entry = "isa_atmosphere"
    /\ pc = "start"
    /\ LET r == isa_atmosphere(h) IN
         IF r.kind = "ok"
         THEN atm' = r /\ pc' = "done" /\ fault' = fault
         ELSE atm' = atm /\ pc' = "fault" /\ fault' = r.kind
    /\ UNCHANGED << entry, h, designVars, nozzleVars, grainVars, sim >>

NextAtmosphere == CallAtmosphere

SpecAtmosphere == InitAtmosphere /\ [][NextAtmosphere]_vars

--------------------------------------------------------------------------
(* Nozzle solver, rocket_utils.py:19-76, for k = 1.2, where the exponents  *)
(* of the isentropic relations are 11/2, 6 and 1/6. Mach number and        *)
(* expansion ratio in 1e-3, pressure ratio and thrust coefficients in      *)
(* 1e-4, thrust in mN, areas in 1e-9 m^2, diameters in um.                 *)

\* rocket_utils.py:21-26, the residual fsolve drives to zero (in 1e-3)
equation(Ma, epsilon) ==
    IF Ma <= 0 THEN 999000
    ELSE LET u == 1000 + (Ma * Ma) \div 10000
             term2 == (u * 10) \div 11
             p2 == (term2 * term2) \div 1000
             p4 == (p2 * p2) \div 1000
             p5 == (p4 * term2) \div 1000
             p55 == (p5 * ISqrt(term2 * 1000)) \div 1000
         IN  MulDiv(p55, 1000, Ma) - epsilon

MachStep == 50
MachGrid == { m \in 50..4950 : m % MachStep = 0 }

\* The grid points next to a zero of the residual: the subsonic and the
\* supersonic root of the area-Mach relation
Roots(epsilon) ==
    { m \in MachGrid :
        (equation(m, epsilon) <= 0) # (equation(m + MachStep, epsilon) <= 0) }

\* fsolve(equation, 2.0)[0] is a library call whose convergence flag the
\* code never reads: it yields a root, or the last iterate of a run that
\* did not converge (any float, NaN included).
FsolveOutcomes(epsilon) ==
    { [ nan |-> FALSE, v |-> m ] : m \in Roots(epsilon) }
      \cup { [ nan |-> TRUE, v |-> 0 ], [ nan |-> FALSE, v |-> 0 ],
             [ nan |-> FALSE, v |-> -2000 ], [ nan |-> FALSE, v |-> 1000 ] }

\* 2 k^2/(k-1) * (2/(k+1))^((k+1)/(k-1)) = 14.4 * (1/1.1)^11, in 1e-4
MomentumFactor == 50471

\* rocket_utils.py:37-76
calculate_nozzle_dimensions(a, Ma) ==
    LET u == 1000 + (Ma.v * Ma.v) \div 10000
        u3 == (((u * u) \div 1000) * u) \div 1000
        u6 == (u3 * u3) \div 1000
        Pe_ratio == 10000000 \div u6
        Pc == MulDiv(a.P0, a.P_percentage, 1000)
        term3 == 10000 - 10000000 \div u
        CF_ideal_momentum == ISqrt(MomentumFactor * term3)
        PaOverPc == (Pa_SL * 10000) \div Pc
        CF_ideal_pressure ==
            IF Pe_ratio >= PaOverPc
            THEN MulDiv(Pe_ratio - PaOverPc, a.epsilon, 1000)
            ELSE 0 - MulDiv(PaOverPc - Pe_ratio, a.epsilon, 1000)
        CF_ideal == CF_ideal_momentum + CF_ideal_pressure
        CF_real == (CF_ideal * a.efficiency) \div 100
        PcCF == MulDiv(Pc \div 1000, CF_real, 10000)
        finite == ~Ma.nan /\ PcCF > 0
        At == IF finite THEN MulDiv(a.F_req, 1000, PcCF) ELSE 0
        Ae == MulDiv(At, a.epsilon, 1000)
    IN  [ kind |-> "dict", finite |-> finite,
          At |-> At, Dt |-> ISqrt(MulDiv(At * 4000, 113, 355)),
          Ae |-> Ae, De |-> ISqrt(MulDiv(Ae * 4000, 113, 355)),
          CF |-> CF_real, CF_ideal |-> CF_ideal, Ma_exit |-> Ma,
          Pc_avg |-> Pc ]

NozzleInputs ==
    [ F_req : { 50000, 100000, 150000 }, P0 : { 3000000 },
      P_percentage : { 615 }, epsilon : { 1100, 2000, 5000, 7414 },
      efficiency : { 92 } ]

InitNozzle ==
    /\ entry = "calculate_nozzle_dimensions"
    /\ pc = "start"
    /\ fault = "none"
    /\ IdleDesign /\ IdleAtmosphere /\ IdleGrain /\ IdleSim
    /\ nin \in NozzleInputs
    /\ Ma_sol = "none"
    /\ nozzle_res = "none"

\* rocket_utils.py:37 with 19-29
CalculateMa ==
    /\ entry = "calculate_nozzle_dimensions"
    /\ pc = "start"
    /\ Ma_sol' \in FsolveOutcomes(nin.epsilon)
    /\ pc' = "ma_solved"
    /\ UNCHANGED << entry, fault, nin, nozzle_res, designVars, atmVars, grainVars,
                    sim >>

\* rocket_utils.py:40-76
SizeNozzle ==
    /\ entry = "calculate_nozzle_dimensions"
    /\ pc = "ma_solved"
    /\ nozzle_res' = calculate_nozzle_dimensions(nin, Ma_sol)
    /\ pc' = "done"
    /\ UNCHANGED << entry, fault, nin, Ma_sol, designVars, atmVars, grainVars,
                    sim >>

NextNozzle == CalculateMa \/ SizeNozzle

SpecNozzle == InitNozzle /\ [][NextNozzle]_vars

--------------------------------------------------------------------------
(* Internal ballistics, grain_design.py:6-94, for the default burn-rate    *)
(* law a = 0.1007 mm/s, n = 0.319.                                         *)

\* (Kn * rho * a * c_star) ** (1 / (1 - n)) in Pa, against Kn * rho * a * c_star
PcTable ==
   << <<0, 0>>, <<100, 865>>, <<125, 1200>>, <<156, 1661>>,
      <<195, 2305>>, <<244, 3204>>, <<305, 4446>>, <<381, 6165>>,
      <<477, 8575>>, <<596, 11892>>, <<745, 16503>>, <<931, 22892>>,
      <<1164, 31779>>, <<1455, 44100>>, <<1819, 61211>>, <<2274, 84959>>,
      <<2842, 117869>>, <<3553, 163605>>, <<4441, 227021>>, <<5551, 315023>>,
      <<6939, 437191>>, <<8674, 606729>>, <<10842, 841920>>, <<13553, 1168422>>,
      <<16941, 1621421>>, <<21176, 2250058>>, <<26470, 3122477>>, <<33087, 4333063>>,
      <<41359, 6013181>>, <<51699, 8344741>>, <<64623, 11580062>>, <<80779, 16070090>>,
      <<100974, 22301052>>, <<126218, 30948052>>, <<157772, 42947388>>, <<197215, 59599444>>,
      <<246519, 82708150>>, <<308149, 114776844>>, <<385186, 159279292>>, <<481482, 221036556>>,
      <<601853, 306739770>>, <<752316, 425672239>>, <<940395, 590718783>>, <<1175494, 819759330>>,
      <<1469368, 1137606428>>, <<1836710, 1578692296>>, <<2000000, 1789014238>> >>

\* a * Pc ** n in um/s, against Pc in kPa
RateTable ==
   << <<100, 3963>>, <<150, 4510>>, <<225, 5133>>, <<338, 5845>>,
      <<506, 6647>>, <<759, 7565>>, <<1139, 8611>>, <<1709, 9801>>,
      <<2563, 11154>>, <<3844, 12693>>, <<5767, 14447>>, <<8650, 16441>>,
      <<12975, 18712>>, <<19462, 21295>>, <<29193, 24236>>, <<43789, 27582>>,
      <<65684, 31391>>, <<98526, 35725>>, <<147789, 40658>>, <<221684, 46272>>,
      <<332526, 52661>>, <<498789, 59933>>, <<748183, 68208>>, <<1122274, 77627>>,
      <<1683411, 88345>>, <<2200000, 96219>> >>

\* 20.0 s in steps of dt = 0.005 s. Time is counted in whole steps; the
\* float sum of 4000 steps is 20.000000000000306, so the code can leave one
\* step before the count does, never later.
TimeCeiling == 4000

\* rho * a * c_star in 1e-2, with a = 0.1007 / 1000 (grain_design.py:106)
RhoACstar(rho, c_star) == MulDiv(rho * c_star, 1007, 100000)

\* grain_design.py:34, in 1e-9 m^2
BurnArea(curr_d, curr_L, D) ==
    LET d10 == curr_d \div 100
        L10 == curr_L \div 100
        D10 == D \div 100
    IN  MulDiv(d10 * L10 + (D10 * D10 - d10 * d10) \div 2, 355, 1130)

\* grain_design.py:35 and 38
ChamberPressure(Ab, At, rac) ==
    Interp(PcTable, MulDiv(MulDiv(Ab, 100, At), rac, 10000))

\* grain_design.py:49
ClampPressure(Pc, Pa) == IF Pc < Pa THEN Pa ELSE Pc

\* the two tests of grain_design.py:64-67 in the opposite order
PressureFactorSwapped(Pc, Pa) ==
    LET first == IF Pc < 5 * Pa THEN 85 ELSE 100
    IN  IF Pc < 10 * Pa THEN 95 ELSE first

\* grain_design.py:63-67, in percent
PressureFactor(Pc, Pa) ==
    LET first == IF Pc < 10 * Pa THEN 95 ELSE 100
    IN  IF Pc < 5 * Pa THEN 85 ELSE first

\* grain_design.py:73, in 1e-4
CfReal(nozzle_eff, pressure_factor) == (145 * nozzle_eff * pressure_factor) \div 100

\* grain_design.py:84, in mN
InstantThrust(Pc, At, Cf_real) ==
    MulDiv(MulDiv(Pc \div 100, At \div 100, 100), Cf_real, 10000)

\* grain_design.py:88, in um/s
RegressionRate(Pc) == Interp(RateTable, Pc \div 1000)

\* the march without the test of grain_design.py:92
TimeCeilingNever(time) == FALSE

\* grain_design.py:92
TimeCeilingHit(time) == time > TimeCeiling

\* grain_design.py:10-23: the locals of a fresh call
SimStart(d_core, D, L_grain, At, rho, c_star, nozzle_eff) ==
    [ d_core |-> d_core, D_grain |-> D, L_grain |-> L_grain, At |-> At,
      rac |-> RhoACstar(rho, c_star), nozzle_eff |-> nozzle_eff,
      Pa |-> Pa_SL, time |-> 0, burn_depth |-> 0, total_impulse |-> 0,
      max_pressure |-> 0, Pc |-> 0, pressure_factor |-> 0, Cf_real |-> 0,
      returned |-> FALSE ]

\* where run_internal_ballistics returns to
AfterSim == IF entry = "calculate_grain_geometry" THEN "grain_compare" ELSE "done"

\* One pass of the while loop, grain_design.py:25-92, or the return at 94
BallisticsStep ==
    /\ pc = "sim"
    /\ LET curr_d == sim.d_core + 2 * sim.burn_depth
           curr_L == sim.L_grain - 2 * sim.burn_depth
       IN
       IF curr_d >= sim.D_grain \/ curr_L <= 0
       THEN /\ sim' = [ sim EXCEPT !.returned = TRUE ]
            /\ pc' = AfterSim
       ELSE LET Ab == BurnArea(curr_d, curr_L, sim.D_grain)
                raw == ChamberPressure(Ab, sim.At, sim.rac)
                Pc == ClampPressure(raw, sim.Pa)
                pf == PressureFactor(Pc, sim.Pa)
                Cf == CfReal(sim.nozzle_eff, pf)
                F_inst == InstantThrust(Pc, sim.At, Cf)
                r == RegressionRate(Pc)
                time == sim.time + 1
            IN  /\ sim' = [ sim EXCEPT
                      !.max_pressure = IF raw > @ THEN raw ELSE @,
                      !.Pc = Pc,
                      !.pressure_factor = pf,
                      !.Cf_real = Cf,
                      !.total_impulse = @ + F_inst \div 200,
                      !.burn_depth = @ + (r * 5) \div 100,
                      !.time = time,
                      !.returned = TimeCeilingHit(time) ]
                /\ pc' = IF TimeCeilingHit(time) THEN AfterSim ELSE "sim"
    /\ UNCHANGED << entry, fault, designVars, atmVars, nozzleVars, grainVars >>

BallisticsInputs ==
    { [ d_core |-> 150000, D_grain |-> 500000, L_grain |-> 1300000, At |-> 78540 ],
      [ d_core |-> 150000, D_grain |-> 500000, L_grain |-> 1300000, At |-> 314160 ],
      [ d_core |-> 50000, D_grain |-> 500000, L_grain |-> 150000, At |-> 78540 ],
      [ d_core |-> 500000, D_grain |-> 500000, L_grain |-> 1300000, At |-> 78540 ],
      [ d_core |-> 50000, D_grain |-> 1700000, L_grain |-> 4000000, At |-> 10000000 ] }

InitBallistics ==
    /\ entry = "run_internal_ballistics"
    /\ pc = "sim"
    /\ fault = "none"
    /\ IdleDesign /\ IdleAtmosphere /\ IdleNozzle /\ IdleGrain
    /\ \E g \in BallisticsInputs :
          sim = SimStart(g.d_core, g.D_grain, g.L_grain, g.At, 1700, 910, 92)

NextBallistics == BallisticsStep

SpecBallistics == InitBallistics /\ [][NextBallistics]_vars

--------------------------------------------------------------------------
(* Grain sizer, grain_design.py:97-157. Arguments: diameters in mm, mass   *)
(* in g, throat area in 1e-9 m^2, burn time in steps of dt.                *)

GrainInputs ==
    [ D_chamber_mm : { 2, 4, 7, 54 }, t_liner_mm : { 2 }, m_prop : { 0, 400 },
      At : { 78540, 314160 }, tb_target : { 300, 610 },
      prop_density : { 1700 }, c_star : { 910 }, efficiency : { 92 } ]

GrainPasses == 20      \* range(20)
TimeTol == 2           \* 0.01 s in steps of dt

\* grain_design.py:123, in 1e-2 mm^2 (not above 0 when the code's is not)
AreaCross(D, core) ==
    LET D10 == D \div 100
        c10 == core \div 100
        sq == D10 * D10 - c10 * c10
    IN  IF sq > 0 THEN MulDiv(sq, 355, 45200) ELSE 0

\* grain_design.py:124
GrainLength(m_prop, prop_density, area_cross) ==
    IF area_cross > 0
    THEN MulDiv(((m_prop * 1000000) \div prop_density) * 1000, 1000, area_cross)
    ELSE 0

InitGrain ==
    /\ entry = "calculate_grain_geometry"
    /\ pc = "start"
    /\ fault = "none"
    /\ IdleDesign /\ IdleAtmosphere /\ IdleNozzle /\ IdleSim
    /\ gin \in GrainInputs
    /\ D_grain = 0
    /\ min_core = 0 /\ max_core = 0
    /\ i = 0
    /\ test_core = 0 /\ test_L = 0
    /\ best_core = 0 /\ best_L = 0
    /\ sim_res = << 0, 0, 0, 0 >>
    /\ grain_res = "none"

\* grain_design.py:102-118
GrainSetup ==
    /\ entry = "calculate_grain_geometry"
    /\ pc = "start"
    /\ D_grain' = gin.D_chamber_mm * 10000 - 2 * (gin.t_liner_mm * 10000)
    /\ min_core' = 50000
    /\ max_core' = D_grain' - 50000
    /\ best_core' = 0 /\ best_L' = 0
    /\ sim_res' = << 0, 0, 0, 0 >>
    /\ pc' = "grain_loop"
    /\ UNCHANGED << entry, fault, designVars, atmVars, nozzleVars, gin, i,
                    test_core, test_L, grain_res, sim >>

\* grain_design.py:120-134: the geometry of one pass and the call of
\* run_internal_ballistics
GrainIterate ==
    /\ pc = "grain_loop"
    /\ i < GrainPasses
    /\ i' = i + 1
    /\ test_core' = Midpoint(min_core, max_core)
    /\ test_L' = GrainLength(gin.m_prop, gin.prop_density,
                             AreaCross(D_grain, test_core'))
    /\ sim' = SimStart(test_core', D_grain, test_L', gin.At, gin.prop_density,
                       gin.c_star, gin.efficiency)
    /\ pc' = "sim"
    /\ UNCHANGED << entry, fault, designVars, atmVars, nozzleVars, gin, D_grain,
                    min_core, max_core, best_core, best_L, sim_res, grain_res >>

\* grain_design.py:136-144
GrainCompare ==
    /\ pc = "grain_compare"
    /\ LET real_tb == sim.time
           error == real_tb - gin.tb_target
       IN  /\ best_core' = test_core
           /\ best_L' = test_L
           /\ sim_res' = << real_tb, sim.total_impulse, sim.max_pressure, 0 >>
           /\ IF Abs(error) < TimeTol
              THEN /\ pc' = "grain_return"
                   /\ UNCHANGED << min_core, max_core >>
              ELSE /\ pc' = "grain_loop"
                   /\ IF real_tb > gin.tb_target
                        THEN min_core' = test_core /\ max_core' = max_core
                        ELSE max_core' = test_core /\ min_core' = min_core
    /\ UNCHANGED << entry, fault, designVars, atmVars, nozzleVars, gin, D_grain,
                    i, test_core, test_L, grain_res, sim >>

\* grain_design.py:146-157
GrainReturn ==
    /\ \/ pc = "grain_return"
       \/ pc = "grain_loop" /\ i >= GrainPasses
    /\ LET real_tb == sim_res[1] IN
         IF real_tb = 0
         THEN /\ pc' = "fault"
              /\ fault' = "ZeroDivisionError"
              /\ grain_res' = grain_res
         ELSE /\ pc' = "done"
              /\ fault' = fault
              /\ grain_res' =
                    [ kind |-> "dict",
                      D_grain_mm |-> D_grain,
                      d_core_mm |-> best_core,
                      L_grain_mm |-> best_L,
                      r_mm_s |-> (best_core * 10) \div real_tb,
                      rho_used |-> gin.prop_density,
                      sim_burn_time |-> real_tb,
                      sim_max_pressure_bar |-> sim_res[3],
                      sim_total_impulse |-> sim_res[2] ]
    /\ UNCHANGED << entry, designVars, atmVars, nozzleVars, gin, D_grain,
                    min_core, max_core, i, test_core, test_L, best_core, best_L,
                    sim_res, sim >>

NextGrain == GrainSetup \/ GrainIterate \/ BallisticsStep \/ GrainCompare \/ GrainReturn

SpecGrain == InitGrain /\ [][NextGrain]_vars

--------------------------------------------------------------------------
(* Every entry point *)

Init == InitDesign \/ InitAtmosphere \/ InitNozzle \/ InitBallistics \/ InitGrain

Next ==
    \/ CallOptimize \/ ThrustIterate \/ ThrustEnd \/ OptimizeSizeNozzle
    \/ CallAtmosphere
    \/ CalculateMa \/ SizeNozzle
    \/ BallisticsStep
    \/ GrainSetup \/ GrainIterate \/ GrainCompare \/ GrainReturn

Spec == Init /\ [][Next]_vars

--------------------------------------------------------------------------
(* Properties, each stated against the specification of the code it is     *)
(* about.                                                                  *)

\* C1 (SpecGrain): when the grain outer diameter is not positive the sizer
\* returns an error result saying the geometry is infeasible, and no pass of
\* the bisection and no ballistics simulation is run before that.
C1_InfeasibleGeometryReported ==
    (entry = "calculate_grain_geometry" /\ pc # "start" /\ D_grain <= 0)
        => /\ i = 0
           /\ pc # "sim"
           /\ pc # "fault"
           /\ pc = "done" => grain_res.kind = "error"

\* C2 (SpecNozzle): when the exit Mach number solved for is not a number or
\* is not above 1, the nozzle solver signals an error and returns no
\* geometry.
C2_InvalidMachSignalled ==
    (entry = "calculate_nozzle_dimensions" /\ pc = "done"
        /\ (Ma_sol.nan \/ Ma_sol.v <= 1000))
        => nozzle_res.kind = "error"

\* C3 (SpecDesign): a design run passes from the thrust optimisation to the
\* nozzle solver and on to its report, and never ends in a fault.
C3_DesignRunNeverFaults ==
    entry \in { "main", "gui" } => pc # "fault" /\ fault = "none"

\* C4 (SpecDesign): when apogee rises strictly with thrust and the target is
\* attainable inside [10 N, 300 N], the thrust the optimizer returns has an
\* apogee within 1 m of the target.
C4_ReturnedThrustReachesTarget ==
    (pc = "nozzle_call" /\ StrictlyIncreasing(cfg) /\ Attainable(h_target, cfg))
        => Abs(Apogee(F_req, cfg) - h_target) <= 100 * tol

\* C5 (SpecDesign): on every way out of the thrust loop, the apogee returned
\* is the one simulated at exactly the thrust returned.
C5_ApogeeIsOfReturnedThrust ==
    pc = "nozzle_call" => h_max = Apogee(F_req, cfg)

\* C6 (SpecAtmosphere): isa_atmosphere returns a density and a pressure for
\* every altitude, those of 11000 m and above included; it never faults.
C6_AtmosphereTotal ==
    entry = "isa_atmosphere" => pc # "fault"

\* C7 (SpecGrain): for a feasible geometry (grain outer diameter above zero)
\* the sizer never raises, a zero burn time or propellant mass included.
C7_SizerNeverRaises ==
    (entry = "calculate_grain_geometry" /\ D_grain > 0) => pc # "fault"

\* C8 (Spec): every loop is bounded. The thrust loop makes at most max_iter
\* passes, the sizing loop at most GrainPasses, and the ballistics march
\* returns at the first step whose elapsed time exceeds the 20 s ceiling, so
\* it makes at most 20 s / dt + 1 steps; a loop that has stopped has handed
\* control on.
C8_LoopsBounded ==
    /\ iter_count <= max_iter
    /\ i <= GrainPasses
    /\ sim.time <= TimeCeiling + 1
    /\ sim.time > TimeCeiling => sim.returned /\ pc # "sim"
    /\ (pc = "thrust_loop" /\ ~LoopGuard) => ENABLED ThrustEnd
    /\ (pc = "grain_loop" /\ i >= GrainPasses) => ENABLED GrainReturn

\* C8: a grain that never burns out is stopped by the ceiling.
C8_CeilingStopsMarch ==
    /\ sim.returned
    /\ sim.time = TimeCeiling + 1
    /\ sim.d_core + 2 * sim.burn_depth < sim.D_grain
    /\ sim.L_grain - 2 * sim.burn_depth > 0

\* C9 (SpecGrain): for every feasible geometry, each core diameter the sizer
\* tests or keeps is below the grain outer diameter.
C9_CoreInsideGrain ==
    (entry = "calculate_grain_geometry" /\ D_grain > 0 /\ pc # "start")
        => test_core < D_grain /\ best_core < D_grain

\* C10 as written (SpecBallistics): the thrust coefficient of a step is the
\* nominal efficiency times the band factor of the clamped chamber pressure.
C10_CoefficientIsEfficiencyTimesBand ==
    sim.time > 0 =>
        LET band == IF sim.Pc >= 10 * sim.Pa THEN 100
                    ELSE IF sim.Pc >= 5 * sim.Pa THEN 95 ELSE 85
        IN  sim.Cf_real = sim.nozzle_eff * band

\* C10 amended (SpecBallistics): the thrust coefficient of a step is the
\* nominal coefficient 1.45 times the nominal efficiency times a band
\* factor; the factor is 1.0, 0.95 or 0.85 as the clamped chamber pressure
\* is at or above 10 times ambient, from 5 up to 10 times ambient, or below
\* 5 times ambient; exactly one band applies, and the factor never rises as
\* the pressure falls.
C10_BandedCoefficient ==
    sim.time > 0 =>
        LET high == sim.Pc >= 10 * sim.Pa
            mid == 5 * sim.Pa <= sim.Pc /\ sim.Pc < 10 * sim.Pa
            low == sim.Pc < 5 * sim.Pa
            band == IF high THEN 100 ELSE IF mid THEN 95 ELSE 85
        IN  /\ sim.Pc >= sim.Pa
            /\ Cardinality({ b \in { "high", "mid", "low" } :
                   \/ b = "high" /\ high
                   \/ b = "mid" /\ mid
                   \/ b = "low" /\ low }) = 1
            /\ sim.pressure_factor = band
            /\ sim.Cf_real = (145 * sim.nozzle_eff * band) \div 100
            /\ \A j \in 0..24 :
                  LET q == (j * sim.Pa) \div 2 IN
                  /\ q <= sim.Pc => PressureFactor(q, sim.Pa) <= sim.pressure_factor
                  /\ q >= sim.Pc => PressureFactor(q, sim.Pa) >= sim.pressure_factor

\* C10: a step taken with the chamber pressure below 5 times ambient.
C10_LowBandStep ==
    /\ sim.time > 0
    /\ sim.Pc < 5 * sim.Pa
    /\ sim.pressure_factor = 85
    /\ sim.Cf_real = CfReal(sim.nozzle_eff, 85)

\* C11 (SpecDesign): when apogee does not fall as thrust rises and the
\* target lies between the apogees of the two ends of the first bracket,
\* then after every pass of the thrust loop F_min <= F_max, the target still
\* lies between the apogees of F_min and F_max, and the pass has left the
\* bracket exactly half as wide as it found it.
C11_BracketInvariant ==
    /\ [](Attainable(h_target, cfg) =>
            /\ F_min <= F_max
            /\ Apogee(F_min, cfg) <= h_target
            /\ h_target <= Apogee(F_max, cfg))
    /\ [][(ThrustIterate /\ Attainable(h_target, cfg)) =>
            /\ 2 * (F_max' - F_min') = F_max - F_min
            /\ F_min <= F_min' /\ F_max' <= F_max]_vars

\* C11: a bracket of an attainable target after passes that moved both ends.
C11_BothEndsMoved ==
    /\ pc = "thrust_loop"
    /\ Attainable(h_target, cfg)
    /\ iter_count >= 3
    /\ F_min > F_min0
    /\ F_max < F_max0
    /\ (F_max - F_min) * 8 <= F_max0 - F_min0

\* C12 (SpecBallistics): whenever run_internal_ballistics has simulated at
\* least one step, the peak pressure it returns is the largest chamber
\* pressure after clamping to ambient, the pressure thrust and regression
\* used, and so is never below the ambient pressure.
C12_PeakIsOfClampedPressure ==
    (sim.returned /\ sim.time > 0)
        => sim.max_pressure >= sim.Pa /\ sim.max_pressure >= sim.Pc

==========================================================================
